---- MODULE Spec2Model ----
(***************************************************************************)
(* Alert ingestion and historical backfill of outalator.                   *)
(*                                                                         *)
(* The model covers the import-history command (main, runImport,           *)
(* processAlert), the two provider adapters' historical fetch, the live    *)
(* import Service.ImportAlert, and the PostgreSQL store operations they    *)
(* use (alerts UNIQUE(external_id, source), outage_id REFERENCES outages   *)
(* ON DELETE CASCADE).  Every store call and every provider call may fail: *)
(* the number of failures of one behaviour is bounded by MaxFaults.        *)
(* Steps are at the granularity of one store or provider call, so that a   *)
(* second importer, or an external termination, can fall between two       *)
(* calls of one processAlert.                                              *)
(*                                                                         *)
(* Spec is the backfill command alone, run up to MaxRuns times in a row;   *)
(* SpecRace adds live imports that interleave with one backfill run;       *)
(* SpecBig is the backfill against a provider holding more alerts than the *)
(* adapters' default page; SpecOps adds Service.CreateOutage and           *)
(* Service.UpdateOutage; SpecMeta applies validation.ValidateMetadata.     *)
(***************************************************************************)
EXTENDS Integers, Sequences, FiniteSets

\* ---------------------------------------------------------------- bounds
MaxExt == 2
MaxData == 3
MaxBatch == 2
MaxRuns == 2
MaxLive == 1
MaxFaults == 2
MaxRaceRuns == 1
MaxFetches == 3
MaxSpecial == 2
MaxOps == 1
MaxOpsData == 1

\* ------------------------------------------------------ program constants
DefaultLimit == 100
MaxMetadataKeys == 100
MaxMetadataKeyLength == 255
MaxMetadataValueLength == 4096

Sources == {"pagerduty", "opsgenie"}
ExtIDs == 1..MaxExt
BatchSizes == 0..MaxBatch
NoOutage == 0

\* The provider's own record of the alert with external id e: the teams it
\* belongs to and whether it is resolved/closed.  Odd ids belong to team t1,
\* ids above 1 to team t2 (id 1 only t1, id 2 only t2, id 3 both); even ids
\* are resolved.
TeamsOf(e) == (IF e % 2 = 1 THEN {"t1"} ELSE {}) \cup (IF e > 1 THEN {"t2"} ELSE {})
ClosedOf(e) == e % 2 = 0
Raw(e) == [id |-> e, teams |-> TeamsOf(e), closed |-> ClosedOf(e)]
TeamFilters == {{}, {"t1"}}

SeqsUpTo(S, n) == UNION {[1..k -> S] : k \in 0..n}

VARIABLES
    racing,      \* whether a live importer shares the store with the backfill
    data,        \* provider: the alerts of the requested time range, in order
    serviceName, \* -service
    batchSize,   \* -batch-size
    teamIDs,     \* -teams
    outages,     \* store: rows of table outages
    alerts,      \* store: rows of table alerts
    nextID,      \* uuid.New(): the next fresh identifier
    pc,          \* backfill process: position
    dryRun,      \* -dry-run of the current run
    connected,   \* whether main opened the store for the current run
    offset,      \* runImport: offset
    hasMore,     \* runImport: hasMore
    page,        \* runImport: alerts of the current page not yet processed
    cur,         \* processAlert: outageID of the outage it created
    stats,       \* ImportStats
    fetchCalls,  \* number of FetchHistorical* calls of the current run
    offsets,     \* the Offset of each FetchHistorical* call of the current run
    delays,      \* number of time.Sleep calls of the current run
    touched,     \* whether the current run invoked any store operation
    runs,        \* number of runs started
    prev,        \* how the previous run ended
    start,       \* the store contents when the current run started
    made,        \* outage ids created by the current run
    rolled,      \* outage ids on which processAlert invoked DeleteOutage
    summary,     \* main: the statistics blocks the current run printed
    lpc,         \* live import: position
    lreq,        \* live import: arguments (source, externalID, outageID)
    lcur,        \* live import: finalOutageID
    lres,        \* live import: result of the last call
    lives,       \* number of live imports started
    lmade,       \* live import: outage ids the last call created
    dupRejected, \* whether the store rejected an insert by UNIQUE
    metadata,    \* validation: the argument of ValidateMetadata
    verdict,     \* validation: what ValidateMetadata returned
    ops,         \* number of Service.CreateOutage/UpdateOutage calls so far
    faults       \* number of failed store/provider calls so far

cfgVars == <<racing, data, serviceName, batchSize, teamIDs, metadata, verdict, ops>>
storeVars == <<outages, alerts, nextID, dupRejected>>
runVars == <<pc, dryRun, connected, offset, hasMore, page, cur, stats,
             fetchCalls, delays, touched, runs, prev, start, made, rolled, summary,
             offsets>>
liveVars == <<lpc, lreq, lcur, lres, lives, lmade>>
vars == <<cfgVars, storeVars, runVars, liveVars, faults>>

\* ------------------------------------------------------------------ store

Key(a) == <<a.ext, a.source>>
Keys(as) == {Key(a) : a \in as}
OutageIDs(os) == {o.id : o \in os}

\* A table alerts without the constraint.
UniqueViolationOff(as, a) == FALSE

\* A table alerts whose only key is its primary key.
UniqueViolationPrimaryKeyOnly(as, a) == a.id \in {b.id : b \in as}

\* UNIQUE(external_id, source) of table alerts.
UniqueViolation(as, a) == Key(a) \in Keys(as)

\* outage_id REFERENCES outages(id).
ForeignKeyViolation(os, a) == a.outageID \notin OutageIDs(os)

\* A lookup with its two arguments swapped matches no row.
GetAlertByExternalIDSwapped(as, e, s) == {}

\* A lookup without its WHERE clause returns whatever row there is.
GetAlertByExternalIDAnyRow(as, e, s) == as

\* PostgresStorage.GetAlertByExternalID: the rows matching (external_id, source).
GetAlertByExternalID(as, e, s) == {a \in as : a.ext = e /\ a.source = s}

\* PostgresStorage.DeleteOutage: DELETE FROM outages WHERE id = $1, with
\* ON DELETE CASCADE on alerts.outage_id.
DeleteOutageRows(os, id) == {o \in os : o.id # id}
CascadeAlerts(as, id) == {a \in as : a.outageID # id}

\* A store or provider call may fail (ExecContext, QueryRowContext or the
\* HTTP request returns an error) while the behaviour's failures last.
CanFail == faults < MaxFaults

\* The number of runs of one behaviour: fewer when a live importer shares
\* the store with the backfill or when the provider's list is long.
RunLimit == IF racing \/ Len(data) > MaxData THEN MaxRaceRuns ELSE MaxRuns

\* --------------------------------------------------------------- provider

Min(a, b) == IF a < b THEN a ELSE b
Slice(s, off, lim) ==
    IF off >= Len(s) \/ lim <= 0 THEN << >> ELSE SubSeq(s, off + 1, Min(off + lim, Len(s)))

\* Effective limit of both adapters.
EffectiveLimit(limit) == IF limit = 0 THEN DefaultLimit ELSE limit

MatchesTeams(raw, teams) == raw.teams \cap teams # {}
FilterTeams(s, teams) == SelectSeq(s, LAMBDA r : MatchesTeams(r, teams))

\* notification.Alert built by an adapter from a provider record.
ToAlert(raw, source) == [ext |-> raw.id, source |-> source, resolved |-> raw.closed]
MapAlerts(s, source) == [i \in 1..Len(s) |-> ToAlert(s[i], source)]

\* PagerDuty GET /incidents: team_ids[] is applied by the server, then
\* limit/offset; "more" tells whether incidents remain after this page.
PagerDutyFetch(d, teams, limit, off) ==
    LET visible == IF teams = {} THEN d ELSE FilterTeams(d, teams)
        lim == EffectiveLimit(limit)
    IN  [alerts |-> MapAlerts(Slice(visible, off, lim), "pagerduty"),
         hasMore |-> off + lim < Len(visible)]

\* An adapter that returns the page unfiltered.
OpsGenieFilterOff(pg, teams) == pg

\* Team filter of opsgenie.FetchHistoricalAlerts, applied to the fetched page.
OpsGenieFilter(pg, teams) == IF teams # {} THEN FilterTeams(pg, teams) ELSE pg

\* OpsGenie GET /v2/alerts: limit/offset by the server (paging.next is set
\* while alerts remain), then the adapter's team filter on the page.
OpsGenieFetch(d, teams, limit, off) ==
    LET lim == EffectiveLimit(limit)
        pg == Slice(d, off, lim)
    IN  [alerts |-> MapAlerts(OpsGenieFilter(pg, teams), "opsgenie"),
         hasMore |-> off + lim < Len(d)]

FetchHistorical(svc, d, teams, limit, off) ==
    IF svc = "pagerduty" THEN PagerDutyFetch(d, teams, limit, off)
    ELSE OpsGenieFetch(d, teams, limit, off)

\* ------------------------------------------------------------------- init

ZeroStats == [TotalFetched |-> 0, NewOutages |-> 0, NewAlerts |-> 0,
              Skipped |-> 0, Errors |-> 0]
EmptyStore == [outages |-> {}, alerts |-> {}]
NoReq == [source |-> "pagerduty", ext |-> 1, target |-> NoOutage]

InitWith(d) ==
    /\ data = d
    /\ serviceName \in Sources
    /\ batchSize \in BatchSizes
    /\ teamIDs \in TeamFilters
    /\ outages = {} /\ alerts = {} /\ nextID = 1 /\ dupRejected = FALSE
    /\ pc = "idle" /\ dryRun = FALSE /\ connected = FALSE
    /\ offset = 0 /\ hasMore = TRUE /\ page = << >> /\ cur = NoOutage
    /\ offsets = << >>
    /\ stats = ZeroStats /\ fetchCalls = 0 /\ delays = 0 /\ touched = FALSE
    /\ runs = 0
    /\ prev = [pc |-> "idle", dryRun |-> FALSE, stats |-> ZeroStats, start |-> EmptyStore,
               made |-> {}]
    /\ start = EmptyStore /\ made = {} /\ rolled = {} /\ summary = << >>
    /\ lpc = "idle" /\ lreq = NoReq /\ lcur = NoOutage /\ lres = "none" /\ lives = 0 /\ lmade = {}
    /\ faults = 0
    /\ ops = 0

InitStore == \E d \in SeqsUpTo({Raw(e) : e \in ExtIDs}, MaxData) : InitWith(d)

\* A provider that holds one alert more than the adapters' default page.
LongData == [i \in 1..(DefaultLimit + 1) |-> Raw(((i - 1) % MaxExt) + 1)]

\* ----------------------------------------------------- import-history main

Ended == {"idle", "done", "failed", "fatal", "killed"}

\* main: flags parsed, the store opened unless -dry-run, runImport entered
\* with offset 0 and hasMore true.
StartRun(d) ==
    /\ pc \in Ended
    /\ runs < RunLimit
    /\ runs' = runs + 1
    /\ prev' = [pc |-> pc, dryRun |-> dryRun, stats |-> stats, start |-> start, made |-> made]
    /\ start' = [outages |-> outages, alerts |-> alerts]
    /\ dryRun' = d
    /\ connected' = ~d
    /\ pc' = "fetch"
    /\ offset' = 0 /\ hasMore' = TRUE /\ page' = << >> /\ cur' = NoOutage
    /\ offsets' = << >>
    /\ stats' = ZeroStats /\ fetchCalls' = 0 /\ delays' = 0 /\ touched' = FALSE
    /\ made' = {} /\ rolled' = {} /\ summary' = << >>
    /\ UNCHANGED <<cfgVars, storeVars, liveVars, faults>>

\* main: postgres.New fails, log.Fatalf before runImport.
ConnectFail ==
    /\ pc \in Ended
    /\ runs < RunLimit
    /\ CanFail
    /\ faults' = faults + 1
    /\ runs' = runs + 1
    /\ prev' = [pc |-> pc, dryRun |-> dryRun, stats |-> stats, start |-> start, made |-> made]
    /\ start' = [outages |-> outages, alerts |-> alerts]
    /\ dryRun' = FALSE
    /\ connected' = FALSE
    /\ pc' = "fatal"
    /\ offset' = 0 /\ hasMore' = TRUE /\ page' = << >> /\ cur' = NoOutage
    /\ offsets' = << >>
    /\ stats' = ZeroStats /\ fetchCalls' = 0 /\ delays' = 0 /\ touched' = FALSE
    /\ made' = {} /\ rolled' = {} /\ summary' = << >>
    /\ UNCHANGED <<cfgVars, storeVars, liveVars>>

Start == (\E d \in BOOLEAN : StartRun(d)) \/ ConnectFail

\* ---------------------------------------------------------------- runImport

\* main: the statistics block printed after runImport returned nil; the
\* Errors line is printed only for a positive count.
PrintedStats(st) ==
    IF st.Errors > 0 THEN st
    ELSE [TotalFetched |-> st.TotalFetched, NewOutages |-> st.NewOutages,
          NewAlerts |-> st.NewAlerts, Skipped |-> st.Skipped]

\* A fetch error that undoes what the run wrote so far.
FetchErrorRollsBack ==
    /\ pc = "fetch"
    /\ fetchCalls < MaxFetches
    /\ CanFail
    /\ faults' = faults + 1
    /\ fetchCalls' = fetchCalls + 1
    /\ offsets' = Append(offsets, offset)
    /\ hasMore' = FALSE
    /\ pc' = "failed"
    /\ outages' = start.outages
    /\ alerts' = start.alerts
    /\ UNCHANGED <<cfgVars, nextID, dupRejected, liveVars, dryRun, connected, offset, page,
                   cur, stats, delays, touched, runs, prev, start, made, rolled, summary>>

\* runImport returns the provider's error; main ends in log.Fatalf.
FetchError ==
    /\ pc = "fetch"
    /\ fetchCalls < MaxFetches
    /\ CanFail
    /\ faults' = faults + 1
    /\ fetchCalls' = fetchCalls + 1
    /\ offsets' = Append(offsets, offset)
    /\ hasMore' = FALSE
    /\ pc' = "failed"
    /\ UNCHANGED <<cfgVars, storeVars, liveVars, dryRun, connected, offset, page, cur,
                   stats, delays, touched, runs, summary, prev, start, made, rolled>>

\* An empty page ends the loop (runImport returns nil and main prints the
\* statistics).
EmptyPageBreaks(pg) == Len(pg) = 0

\* One iteration of the loop up to the first processAlert: fetch the page at
\* offset; break on an empty page; otherwise count it.
FetchPage ==
    /\ pc = "fetch"
    /\ fetchCalls < MaxFetches
    /\ LET r == FetchHistorical(serviceName, data, teamIDs, batchSize, offset)
       IN  /\ fetchCalls' = fetchCalls + 1
           /\ offsets' = Append(offsets, offset)
           /\ hasMore' = r.hasMore
           /\ IF EmptyPageBreaks(r.alerts)
              THEN /\ pc' = "done"
                   /\ summary' = Append(summary, PrintedStats(stats))
                   /\ UNCHANGED <<page, stats>>
              ELSE /\ pc' = "process"
                   /\ page' = r.alerts
                   /\ UNCHANGED summary
                   /\ stats' = [stats EXCEPT !.TotalFetched = @ + Len(r.alerts)]
    /\ UNCHANGED <<cfgVars, storeVars, liveVars, faults, dryRun, connected, offset, cur,
                   delays, touched, runs, prev, start, made, rolled>>

Fetch == FetchPage \/ FetchError

\* A loop over the page that stops after its first alert.
AfterAlertEndsPage(pg) == "sleep"

\* Position after processAlert returned for the head of the page.
AfterAlert(pg) == IF Len(pg) > 1 THEN "process" ELSE "sleep"

\* An error counted by processAlert and again by runImport.
CountErrorTwice(st) == [st EXCEPT !.Errors = @ + 2]

\* runImport: processAlert returned an error.
CountError(st) == [st EXCEPT !.Errors = @ + 1]

\* processAlert without its dry-run branch.
DryRunBranchOff(d) == FALSE

\* A dry run that counts outages only.
DryRunStatsOutagesOnly(st) == [st EXCEPT !.NewOutages = @ + 1]

\* A dry run that counts alerts only.
DryRunStatsAlertsOnly(st) == [st EXCEPT !.NewAlerts = @ + 1]

\* processAlert, dry-run branch.
DryRunBranch(d) == d
DryRunStats(st) == [st EXCEPT !.NewOutages = @ + 1, !.NewAlerts = @ + 1]

ProcessDryRun ==
    /\ pc = "process"
    /\ DryRunBranch(dryRun)
    /\ stats' = DryRunStats(stats)
    /\ page' = Tail(page)
    /\ pc' = AfterAlert(page)
    /\ UNCHANGED <<cfgVars, storeVars, liveVars, faults, dryRun, connected, offset, hasMore,
                   cur, fetchCalls, offsets, delays, touched, runs, summary, prev, start, made, rolled>>

\* processAlert: store.GetAlertByExternalID and the two early returns.
CheckExisting ==
    /\ pc = "process"
    /\ ~DryRunBranch(dryRun)
    /\ touched' = TRUE
    /\ \/ /\ CanFail
          /\ faults' = faults + 1
          /\ stats' = CountError(stats)
          /\ page' = Tail(page)
          /\ pc' = AfterAlert(page)
       \/ /\ GetAlertByExternalID(alerts, Head(page).ext, Head(page).source) # {}
          /\ stats' = [stats EXCEPT !.Skipped = @ + 1]
          /\ page' = Tail(page)
          /\ pc' = AfterAlert(page)
          /\ UNCHANGED faults
       \/ /\ GetAlertByExternalID(alerts, Head(page).ext, Head(page).source) = {}
          /\ pc' = "createOutage"
          /\ UNCHANGED <<faults, stats, page>>
    /\ UNCHANGED <<cfgVars, storeVars, liveVars, dryRun, connected, offset, hasMore, cur,
                   fetchCalls, offsets, delays, runs, summary, prev, start, made, rolled>>

\* Status of the outage processAlert creates.
BackfillStatus(a) == IF a.resolved THEN "resolved" ELSE "open"

\* processAlert: store.CreateOutage, then stats.NewOutages++.
CreateOutageStep ==
    /\ pc = "createOutage"
    /\ \/ /\ CanFail
          /\ faults' = faults + 1
          /\ stats' = CountError(stats)
          /\ page' = Tail(page)
          /\ pc' = AfterAlert(page)
          /\ UNCHANGED <<outages, nextID, cur, made>>
       \/ /\ outages' = outages \cup
                {[id |-> nextID, status |-> BackfillStatus(Head(page)),
                  resolved |-> Head(page).resolved]}
          /\ nextID' = nextID + 1
          /\ cur' = nextID
          /\ made' = made \cup {nextID}
          /\ stats' = [stats EXCEPT !.NewOutages = @ + 1]
          /\ pc' = "createAlert"
          /\ UNCHANGED <<faults, page>>
    /\ UNCHANGED <<cfgVars, alerts, dupRejected, liveVars, dryRun, connected, offset, hasMore,
                   fetchCalls, offsets, delays, touched, runs, summary, prev, start, rolled>>

NewAlertRow(id, oid, a) ==
    [id |-> id, outageID |-> oid, ext |-> a.ext, source |-> a.source, resolved |-> a.resolved]

\* processAlert: store.CreateAlert; on success stats.NewAlerts++.
CreateAlertStep ==
    /\ pc = "createAlert"
    /\ LET row == NewAlertRow(nextID, cur, Head(page))
       IN  \/ /\ CanFail
              /\ faults' = faults + 1
              /\ pc' = "deleteOutage"
              /\ UNCHANGED <<alerts, nextID, dupRejected, stats, page>>
           \/ /\ UniqueViolation(alerts, row) \/ ForeignKeyViolation(outages, row)
              /\ dupRejected' = (dupRejected \/ UniqueViolation(alerts, row))
              /\ pc' = "deleteOutage"
              /\ UNCHANGED <<alerts, nextID, faults, stats, page>>
           \/ /\ ~UniqueViolation(alerts, row)
              /\ ~ForeignKeyViolation(outages, row)
              /\ alerts' = alerts \cup {row}
              /\ nextID' = nextID + 1
              /\ stats' = [stats EXCEPT !.NewAlerts = @ + 1]
              /\ page' = Tail(page)
              /\ pc' = AfterAlert(page)
              /\ UNCHANGED <<faults, dupRejected>>
    /\ UNCHANGED <<cfgVars, outages, liveVars, dryRun, connected, offset, hasMore, cur,
                   fetchCalls, offsets, delays, touched, runs, summary, prev, start, made, rolled>>

\* processAlert: store.DeleteOutage after a failed CreateAlert, its error
\* discarded; then the CreateAlert error is returned.
CleanupStep ==
    /\ pc = "deleteOutage"
    /\ rolled' = rolled \cup {cur}
    /\ \/ /\ CanFail
          /\ faults' = faults + 1
          /\ UNCHANGED <<outages, alerts>>
       \/ /\ outages' = DeleteOutageRows(outages, cur)
          /\ alerts' = CascadeAlerts(alerts, cur)
          /\ UNCHANGED faults
    /\ stats' = CountError(stats)
    /\ page' = Tail(page)
    /\ pc' = AfterAlert(page)
    /\ UNCHANGED <<cfgVars, nextID, dupRejected, liveVars, dryRun, connected, offset, hasMore,
                   cur, fetchCalls, offsets, delays, touched, runs, summary, prev, start, made>>

\* An offset that advances one too far.
NextOffsetSkips(off, bs) == off + bs + 1

\* runImport: offset += batchSize.
NextOffset(off, bs) == off + bs

\* runImport: end of one iteration: offset += batchSize, time.Sleep, loop
\* test; when the loop ends runImport returns nil and main prints the
\* statistics.
EndPage ==
    /\ pc = "sleep"
    /\ offset' = NextOffset(offset, batchSize)
    /\ delays' = delays + 1
    /\ pc' = IF hasMore THEN "fetch" ELSE "done"
    /\ summary' = IF hasMore THEN summary ELSE Append(summary, PrintedStats(stats))
    /\ UNCHANGED <<cfgVars, storeVars, liveVars, faults, dryRun, connected, hasMore, page,
                   cur, stats, fetchCalls, offsets, touched, runs, prev, start, made, rolled>>

\* External termination of the running process.
Kill ==
    /\ pc \notin Ended
    /\ pc' = "killed"
    /\ UNCHANGED <<cfgVars, storeVars, liveVars, faults, dryRun, connected, offset, hasMore,
                   page, cur, stats, fetchCalls, offsets, delays, touched, runs, summary, prev, start, made,
                   rolled>>

Backfill ==
    \/ Start
    \/ Fetch
    \/ ProcessDryRun
    \/ CheckExisting
    \/ CreateOutageStep
    \/ CreateAlertStep
    \/ CleanupStep
    \/ EndPage
    \/ Kill

\* ------------------------------------------------------ Service.ImportAlert

\* ImportAlert returns: its arguments and locals are gone.
LiveReturn(res) == lpc' = "idle" /\ lres' = res /\ lreq' = NoReq /\ lcur' = NoOutage

\* An ImportAlert that creates an outage although it was given one.
LiveImportIgnoresTarget(src, e, target) ==
    /\ lpc = "idle"
    /\ lives < MaxLive
    /\ lives' = lives + 1
    /\ lmade' = {}
    /\ \/ /\ CanFail
          /\ faults' = faults + 1
          /\ LiveReturn("error")
       \/ /\ GetAlertByExternalID(alerts, e, src) # {}
          /\ LiveReturn("existing")
          /\ UNCHANGED faults
       \/ /\ \/ GetAlertByExternalID(alerts, e, src) = {} /\ UNCHANGED faults
             \/ CanFail /\ faults' = faults + 1
          /\ lreq' = [source |-> src, ext |-> e, target |-> target]
          /\ lres' = "none"
          /\ lcur' = NoOutage /\ lpc' = "createOutage"
    /\ UNCHANGED <<cfgVars, storeVars, runVars>>

\* ImportAlert up to the first write: the service lookup, FetchAlert,
\* GetAlertByExternalID and the choice of the outage.
LiveImport(src, e, target) ==
    /\ lpc = "idle"
    /\ lives < MaxLive
    /\ lives' = lives + 1
    /\ lmade' = {}
    /\ \/ /\ CanFail                       \* FetchAlert fails
          /\ faults' = faults + 1
          /\ LiveReturn("error")
       \/ /\ GetAlertByExternalID(alerts, e, src) # {}      \* err == nil
          /\ LiveReturn("existing")
          /\ UNCHANGED faults
       \/ /\ \/ GetAlertByExternalID(alerts, e, src) = {} /\ UNCHANGED faults
             \/ CanFail /\ faults' = faults + 1            \* the lookup fails
          /\ lreq' = [source |-> src, ext |-> e, target |-> target]
          /\ lres' = "none"
          /\ IF target # NoOutage
             THEN lcur' = target /\ lpc' = "createAlert"
             ELSE lcur' = NoOutage /\ lpc' = "createOutage"
    /\ UNCHANGED <<cfgVars, storeVars, runVars>>

\* ImportAlert: storage.CreateOutage of a new outage with Status "open".
LiveCreateOutage ==
    /\ lpc = "createOutage"
    /\ \/ /\ CanFail
          /\ faults' = faults + 1
          /\ LiveReturn("error")
          /\ UNCHANGED <<outages, nextID, lmade>>
       \/ /\ outages' = outages \cup {[id |-> nextID, status |-> "open", resolved |-> FALSE]}
          /\ nextID' = nextID + 1
          /\ lcur' = nextID
          /\ lmade' = lmade \cup {nextID}
          /\ lpc' = "createAlert"
          /\ UNCHANGED <<faults, lres, lreq>>
    /\ UNCHANGED <<cfgVars, alerts, dupRejected, runVars, lives>>

\* ImportAlert: storage.CreateAlert and the return.
LiveCreateAlert ==
    /\ lpc = "createAlert"
    /\ LET row == NewAlertRow(nextID, lcur, ToAlert(Raw(lreq.ext), lreq.source))
       IN  \/ /\ CanFail
              /\ faults' = faults + 1
              /\ LiveReturn("error")
              /\ UNCHANGED <<alerts, nextID, dupRejected>>
           \/ /\ UniqueViolation(alerts, row) \/ ForeignKeyViolation(outages, row)
              /\ dupRejected' = (dupRejected \/ UniqueViolation(alerts, row))
              /\ LiveReturn("error")
              /\ UNCHANGED <<alerts, nextID, faults>>
           \/ /\ ~UniqueViolation(alerts, row)
              /\ ~ForeignKeyViolation(outages, row)
              /\ alerts' = alerts \cup {row}
              /\ nextID' = nextID + 1
              /\ LiveReturn("created")
              /\ UNCHANGED <<faults, dupRejected>>
    /\ UNCHANGED <<cfgVars, outages, runVars, lives, lmade>>

Live ==
    \/ \E src \in Sources, e \in ExtIDs, t \in OutageIDs(outages) \cup {NoOutage} :
          LiveImport(src, e, t)
    \/ LiveCreateOutage
    \/ LiveCreateAlert

\* ------------------------------------ Service.CreateOutage, Service.UpdateOutage

\* Status values of an UpdateOutageRequest; "nil" is a request without Status.
Statuses == {"open", "resolved", "closed"}
StatusRequests == Statuses \cup {"nil"}
NoAlert == 0

\* Service.CreateOutage: storage.CreateOutage of an outage with Status "open";
\* then, for a requested alert id, FetchAlert from the service that knows it
\* and storage.CreateAlert linked to the new outage, with no existence
\* check; an error of CreateAlert is returned with the outage left in place.
ServiceCreateOutage(src, e) ==
    /\ ops < MaxOps
    /\ ops' = ops + 1
    /\ \/ /\ CanFail                       \* storage.CreateOutage fails
          /\ faults' = faults + 1
          /\ UNCHANGED storeVars
       \/ /\ e = NoAlert                    \* no AlertIDs
          /\ outages' = outages \cup {[id |-> nextID, status |-> "open", resolved |-> FALSE]}
          /\ nextID' = nextID + 1
          /\ UNCHANGED <<alerts, dupRejected, faults>>
       \/ /\ e # NoAlert
          /\ LET row == NewAlertRow(nextID + 1, nextID, ToAlert(Raw(e), src))
             IN  /\ outages' = outages \cup
                        {[id |-> nextID, status |-> "open", resolved |-> FALSE]}
                 /\ \/ /\ CanFail           \* storage.CreateAlert fails
                       /\ faults' = faults + 1
                       /\ nextID' = nextID + 1
                       /\ UNCHANGED <<alerts, dupRejected>>
                    \/ /\ UniqueViolation(alerts, row)
                       /\ dupRejected' = TRUE
                       /\ nextID' = nextID + 1
                       /\ UNCHANGED <<alerts, faults>>
                    \/ /\ ~UniqueViolation(alerts, row)
                       /\ alerts' = alerts \cup {row}
                       /\ nextID' = nextID + 2
                       /\ UNCHANGED <<dupRejected, faults>>
    /\ UNCHANGED <<racing, data, serviceName, batchSize, teamIDs, metadata, verdict,
                   runVars, liveVars>>

\* Service.UpdateOutage: ResolvedAt is set when the requested status is
\* "resolved" or "closed" and is otherwise left as it was.
UpdatedResolved(o, st) == IF st \in {"resolved", "closed"} THEN TRUE ELSE o.resolved

\* Service.UpdateOutage: GetOutage, the requested changes, storage.UpdateOutage.
ServiceUpdateOutage(id, st) ==
    /\ ops < MaxOps
    /\ ops' = ops + 1
    /\ \/ /\ CanFail                       \* GetOutage or UpdateOutage fails
          /\ faults' = faults + 1
          /\ UNCHANGED outages
       \/ /\ id \notin OutageIDs(outages)   \* outage not found
          /\ UNCHANGED <<outages, faults>>
       \/ /\ id \in OutageIDs(outages)
          /\ outages' =
                {IF o.id # id THEN o
                 ELSE [o EXCEPT !.status = IF st = "nil" THEN @ ELSE st,
                                !.resolved = IF st = "nil" THEN @ ELSE UpdatedResolved(o, st)] :
                 o \in outages}
          /\ UNCHANGED faults
    /\ UNCHANGED <<racing, data, serviceName, batchSize, teamIDs, metadata, verdict,
                   alerts, nextID, dupRejected, runVars, liveVars>>

ServiceOps ==
    \/ \E src \in Sources, e \in ExtIDs \cup {NoAlert} : ServiceCreateOutage(src, e)
    \/ \E id \in 1..nextID, st \in StatusRequests : ServiceUpdateOutage(id, st)

\* ------------------------------------------------- validation.ValidateMetadata

\* Keys of a metadata map, by name, and the byte length of each; a map
\* holds these under distinct names, next to a number of ordinary entries
\* (a one-byte key with an empty value each).
SpecialKeys == {"empty", "short", "longest", "overlong"}
KeyLen(k) ==
    CASE k = "empty" -> 0
      [] k = "short" -> 1
      [] k = "longest" -> MaxMetadataKeyLength
      [] k = "overlong" -> MaxMetadataKeyLength + 1
ValueLens == {0, MaxMetadataValueLength, MaxMetadataValueLength + 1}
FillCounts == {0, MaxMetadataKeys - MaxSpecial, MaxMetadataKeys - 1, MaxMetadataKeys,
               MaxMetadataKeys + 1}

NilMetadata == [nil |-> TRUE, vals |-> << >>, fill |-> 0]
MetadataInputs ==
    {NilMetadata} \cup
    {[nil |-> FALSE, vals |-> v, fill |-> n] :
        v \in UNION {[K -> ValueLens] : K \in {S \in SUBSET SpecialKeys : Cardinality(S) <= MaxSpecial}},
        n \in FillCounts}

\* len(metadata).
NumKeys(m) == Cardinality(DOMAIN m.vals) + m.fill

\* A length check that also rejects a key of exactly the maximum length.
KeyTooLongInclusive(n) == n >= MaxMetadataKeyLength

\* len(key) > MaxMetadataKeyLength.
KeyTooLong(n) == n > MaxMetadataKeyLength

\* ValidateMetadata: nil passes; then the number of keys; then every entry.
ValidateMetadata(m) ==
    IF m.nil THEN "ok"
    ELSE IF NumKeys(m) > MaxMetadataKeys THEN "error"
    ELSE IF \/ \E k \in DOMAIN m.vals :
                  \/ KeyLen(k) = 0
                  \/ KeyTooLong(KeyLen(k))
                  \/ m.vals[k] > MaxMetadataValueLength
            \/ m.fill > 0 /\ (KeyTooLong(1) \/ 0 > MaxMetadataValueLength)
         THEN "error"
    ELSE "ok"

NoValidation == metadata = NilMetadata /\ verdict = "none"

\* One call of ValidateMetadata on the given map.
ValidateCall ==
    /\ verdict = "none"
    /\ verdict' = ValidateMetadata(metadata)
    /\ UNCHANGED <<racing, data, serviceName, batchSize, teamIDs, metadata, ops,
                   storeVars, runVars, liveVars, faults>>

\* --------------------------------------------------------- specifications

\* The backfill command alone: runs of import-history, one after the other.
Next == Backfill
Init == racing = FALSE /\ InitStore /\ NoValidation
Spec == Init /\ [][Next]_vars

\* A backfill run and live imports, concurrently against the same store.
NextRace == Backfill \/ Live
InitRace == racing = TRUE /\ InitStore /\ NoValidation
SpecRace == InitRace /\ [][NextRace]_vars

\* The backfill command against a provider whose list of alerts is longer
\* than the adapters' default page.
InitBig == racing = FALSE /\ InitWith(LongData) /\ NoValidation
SpecBig == InitBig /\ [][Next]_vars

\* Outages of a backfill run and a live import, created and updated
\* through the service as well.
NextOps == Backfill \/ Live \/ ServiceOps
InitOps ==
    /\ racing = TRUE
    /\ \E d \in SeqsUpTo({Raw(e) : e \in ExtIDs}, MaxOpsData) : InitWith(d)
    /\ NoValidation
SpecOps == InitOps /\ [][NextOps]_vars

\* ValidateMetadata applied to a metadata map.
NextMeta == ValidateCall
InitMeta ==
    /\ racing = FALSE /\ InitWith(<< >>)
    /\ metadata \in MetadataInputs /\ verdict = "none"
SpecMeta == InitMeta /\ [][NextMeta]_vars

\* ------------------------------------------------------------ properties

HasAlert(id) == \E a \in alerts : a.outageID = id
Orphans(ids) == {id \in ids \cap OutageIDs(outages) : ~HasAlert(id)}
CeilDiv(n, b) == (n + b - 1) \div b
Max(a, b) == IF a > b THEN a ELSE b

\* The alerts of the time range that the run's team filter lets through.
Matching == IF teamIDs = {} THEN data ELSE FilterTeams(data, teamIDs)

\* The provider hands out its alerts in full pages of batchSize: server-side
\* filtering, or no filter at all.
FullPages == batchSize >= 1 /\ (serviceName = "pagerduty" \/ teamIDs = {})

\* The current run is a completed real run that follows a completed real
\* run without errors.
SecondRun ==
    /\ pc = "done" /\ ~dryRun
    /\ prev.pc = "done" /\ ~prev.dryRun /\ prev.stats.Errors = 0

\* The current run is a completed real run that follows a completed dry run
\* started on the same store contents.
RealAfterDry ==
    /\ pc = "done" /\ ~dryRun
    /\ prev.pc = "done" /\ prev.dryRun /\ prev.start = start

\* The alerts of the current run that processAlert has returned for.
Processed ==
    IF dryRun THEN stats.NewAlerts
    ELSE stats.NewAlerts + stats.Skipped + stats.Errors

\* C1: the store never holds two alerts with the same (ExternalID, Source).
C1_UniqueIdentity == \A a, b \in alerts : Key(a) = Key(b) => a = b

\* C1: an insert of an already persisted pair was attempted and rejected.
C1_Witness == dupRejected /\ alerts # {}

\* C2, as claimed: a second run after an error-free run creates nothing,
\* skips every fetched alert and leaves the store's sizes unchanged.
C2_Original ==
    SecondRun =>
        /\ stats.NewAlerts = 0 /\ stats.NewOutages = 0
        /\ stats.Skipped = stats.TotalFetched
        /\ Cardinality(outages) = Cardinality(start.outages)
        /\ Cardinality(alerts) = Cardinality(start.alerts)

\* C2, amended: a second run after an error-free run creates nothing, leaves
\* the store as it was, and counts every fetched alert as skipped or, when
\* its existence lookup failed, as an error (Skipped = TotalFetched - Errors).
C2_Idempotent ==
    SecondRun =>
        /\ stats.NewAlerts = 0 /\ stats.NewOutages = 0
        /\ stats.Skipped + stats.Errors = stats.TotalFetched
        /\ outages = start.outages
        /\ alerts = start.alerts

\* C2: a second run that skipped what the first run created.
C2_Witness == SecondRun /\ prev.stats.NewAlerts >= 1 /\ stats.Skipped >= 1 /\ stats.Errors = 0

\* C3, as claimed: an outage on which processAlert invoked DeleteOutage is
\* gone, and a finished run leaves none of its outages without an alert.
C3_Original ==
    /\ \A id \in rolled : id \notin OutageIDs(outages)
    /\ pc \in {"done", "failed"} => Orphans(made) = {}

\* C4, as claimed: an alert whose CreateAlert failed is not counted under
\* NewOutages, so a finished run's NewOutages is the number of outages it
\* left in the store and equals its NewAlerts.
C4_Original ==
    pc = "done" /\ ~dryRun /\ Orphans(made) = {} =>
        /\ stats.NewOutages = Cardinality(made \cap OutageIDs(outages))
        /\ stats.NewOutages = stats.NewAlerts

\* C5, as claimed: after a terminated run and a complete error-free re-run,
\* no outage created by either run is without an alert.
C5_Original ==
    (pc = "done" /\ ~dryRun /\ stats.Errors = 0
        /\ prev.pc = "killed" /\ ~prev.dryRun /\ prev.stats.Errors = 0)
    => Orphans(made \cup prev.made) = {}

\* C6: a dry run never opens the store, invokes no store operation and
\* leaves the store contents as they were.
C6_DryRunPurity ==
    dryRun =>
        /\ ~connected /\ ~touched
        /\ outages = start.outages /\ alerts = start.alerts

\* C6: a dry run that went through two pages and finished.
C6_Witness == dryRun /\ pc = "done" /\ fetchCalls >= 2 /\ stats.NewAlerts >= 2

C8_Original ==
    pc = "done" /\ FullPages =>
        /\ fetchCalls = CeilDiv(Len(Matching), batchSize)
        /\ stats.TotalFetched = Len(Matching)

\* C8, amended: N alerts in pages of batchSize take ceil(N/batchSize) fetch
\* calls, and one fetch call when N = 0; the run ends with TotalFetched = N.
C8_Pagination ==
    pc = "done" /\ FullPages =>
        /\ fetchCalls = Max(1, CeilDiv(Len(Matching), batchSize))
        /\ stats.TotalFetched = Len(Matching)

\* C8: three alerts in pages of two: a full page, then the rest.
C8_Witness ==
    pc = "done" /\ FullPages /\ batchSize = 2 /\ fetchCalls = 2 /\ stats.TotalFetched = 3

\* C9, as claimed: the run reaches Done only after a fetch that returned
\* hasMore = false, and by then every matching alert has been fetched.
C9_Original ==
    pc = "done" => ~hasMore /\ stats.TotalFetched = Len(Matching)

\* C10, as claimed: a finished run of k successful fetches slept k-1 times
\* (here even for a run that met no error).
C10_Original == pc = "done" /\ stats.Errors = 0 => delays = fetchCalls - 1

\* C11, as claimed: a run that ended after it started fetching, by the end
\* of its pages or by a provider error, printed the statistics block once,
\* with the values of its counters.
C11_Original ==
    pc \in {"done", "failed"} =>
        /\ Len(summary) = 1
        /\ \A f \in DOMAIN summary[1] : summary[1][f] = stats[f]

\* C12: a failure of processAlert never aborts the run: the step that
\* counts it adds exactly 1 to Errors, drops that alert alone from the page
\* and goes on to the next alert of the page or to the end of the page; the
\* end of a page with hasMore set leads to the next fetch; and whenever a
\* page is finished every alert fetched so far has been processed.
C12_ErrorsDoNotAbort ==
    /\ [](pc \in {"fetch", "sleep", "done"} => Processed = stats.TotalFetched)
    /\ [][/\ (stats'.Errors # stats.Errors /\ runs' = runs) =>
                /\ stats'.Errors = stats.Errors + 1
                /\ page' = Tail(page)
                /\ pc' = (IF Len(page) > 1 THEN "process" ELSE "sleep")
                /\ hasMore' = hasMore
          /\ (pc = "sleep" /\ hasMore /\ pc' # "killed") => pc' = "fetch"]_vars

\* C12: a finished real run of several pages that counted two errors and
\* still created an alert.
C12_Witness ==
    pc = "done" /\ ~dryRun /\ stats.Errors = 2 /\ stats.NewAlerts >= 1 /\ fetchCalls >= 2

\* C13: a failed provider fetch aborts the run at that page: the failing
\* step writes nothing and counts nothing, no alert of the page is processed
\* and nothing but a new run follows; the alerts and outages written for the
\* earlier pages are still in the store.
C13_FetchErrorAborts ==
    /\ [](pc = "failed" =>
            /\ page = << >>
            /\ Processed = stats.TotalFetched
            /\ fetchCalls = delays + 1
            /\ start.alerts \subseteq alerts
            /\ start.outages \subseteq outages
            /\ ~dryRun => Cardinality(alerts \ start.alerts) = stats.NewAlerts
            /\ \A id \in made \ rolled : id \in OutageIDs(outages))
    /\ [][/\ (pc = "fetch" /\ pc' = "failed") =>
                /\ outages' = outages /\ alerts' = alerts
                /\ stats' = stats /\ page' = page
          /\ pc = "failed" => runs' = runs + 1]_vars

\* C13: a real run that wrote an alert for its first page and was aborted
\* by the failure of a later fetch.
C13_Witness ==
    pc = "failed" /\ ~dryRun /\ fetchCalls >= 2 /\ stats.NewAlerts >= 1 /\ alerts # {}

\* C14, as claimed: an outage created for an alert, by processAlert or by
\* ImportAlert without a target outage, has Status "resolved" when the
\* alert carries ResolvedAt and "open" when it does not.
C14_Original ==
    /\ (pc = "createAlert" /\ cur \in OutageIDs(outages)) =>
          \A o \in outages :
             o.id = cur => o.status = (IF Head(page).resolved THEN "resolved" ELSE "open")
    /\ (lpc = "createAlert" /\ lcur \in lmade) =>
          \A o \in outages :
             o.id = lcur =>
                o.status = (IF ToAlert(Raw(lreq.ext), lreq.source).resolved
                            THEN "resolved" ELSE "open")

\* C15, as claimed: a call of ImportAlert without a target outage that
\* returned an error left none of the outages it created in the store, and
\* a call that succeeded left exactly one new alert, linked to an outage.
C15_Original ==
    /\ (lpc = "idle" /\ lres = "error") => lmade \cap OutageIDs(outages) = {}
    /\ (lpc = "idle" /\ lres = "created") =>
          /\ Cardinality(lmade) <= 1
          /\ \A id \in lmade :
                /\ id \in OutageIDs(outages)
                /\ Cardinality({a \in alerts : a.outageID = id}) = 1

\* C16: in a real backfill run the existence lookup comes before any write
\* for the alert: processAlert reaches its writes only while the alert is not
\* persisted, and the step of a successful lookup that finds the alert
\* persisted leaves the store unchanged and adds 1 to Skipped alone, while
\* one that finds nothing writes nothing yet.
C16_SkipWritesNothing ==
    /\ [](pc \in {"createOutage", "createAlert"} =>
             touched /\ Key(Head(page)) \notin Keys(alerts))
    /\ [][(pc = "process" /\ ~dryRun /\ faults' = faults /\ pc' # "killed") =>
             /\ outages' = outages /\ alerts' = alerts /\ nextID' = nextID
             /\ IF Key(Head(page)) \in Keys(alerts)
                THEN /\ stats' = [stats EXCEPT !.Skipped = @ + 1]
                     /\ page' = Tail(page)
                     /\ pc' \in {"process", "sleep"}
                ELSE /\ stats' = stats
                     /\ pc' = "createOutage"]_vars

\* C16: a real run over a store that already held alerts has skipped one
\* and the store is as it was when the run started.
C16_Witness ==
    /\ ~dryRun /\ pc \in {"process", "sleep"}
    /\ stats.Skipped >= 1 /\ stats.NewAlerts = 0 /\ stats.Errors = 0
    /\ start.alerts # {} /\ alerts = start.alerts /\ outages = start.outages

\* C17, as claimed: ImportAlert called for an alert that is already
\* persisted never goes past its existence check towards a write, whatever
\* target outage it was given.
C17_Original ==
    [][(lpc = "idle" /\ lpc' # "idle") => Key(lreq') \notin Keys(alerts)]_vars

\* C18: with a team filter, an OpsGenie alert of none of the requested
\* teams is in no page handed to runImport, is never counted and never
\* persisted; the hasMore of a page is the provider's own (alerts remain
\* after offset + limit), however many alerts of the page were discarded;
\* without a team filter a finished run has fetched every alert.
C18_TeamFilter ==
    serviceName = "opsgenie" =>
        /\ teamIDs # {} =>
              /\ \A i \in 1..Len(page) : TeamsOf(page[i].ext) \cap teamIDs # {}
              /\ \A a \in alerts : TeamsOf(a.ext) \cap teamIDs # {}
              /\ stats.TotalFetched <= Len(Matching)
              /\ ~dryRun => stats.NewOutages <= Len(Matching)
              /\ stats.NewAlerts <= Len(Matching)
        /\ pc \in {"process", "createOutage", "createAlert", "deleteOutage", "sleep"} =>
              hasMore = (offset + EffectiveLimit(batchSize) < Len(data))
        /\ (teamIDs = {} /\ pc = "done") => stats.TotalFetched = Len(data)

\* C18: a page of two OpsGenie alerts of which the filter discarded one,
\* returned with hasMore set.
C18_Witness ==
    /\ serviceName = "opsgenie" /\ teamIDs # {} /\ batchSize = 2
    /\ pc = "process" /\ offset = 0 /\ Len(page) = 1 /\ stats.TotalFetched = 1 /\ hasMore

\* C19: with a backfill run and a live import working on the same store in
\* any interleaving, every insert into alerts adds one row whose
\* (ExternalID, Source) no persisted alert has, so the alerts in the store
\* are as many as their (ExternalID, Source) pairs.
C19_RaceSafe ==
    /\ [](Cardinality(Keys(alerts)) = Cardinality(alerts))
    /\ [][/\ Cardinality(alerts' \ alerts) <= 1
          /\ \A a \in alerts' \ alerts : Key(a) \notin Keys(alerts)]_vars

\* C19: both importers passed their existence check for the same alert
\* with no call failing, one insert went through and the other was rejected.
C19_Witness ==
    racing /\ dupRejected /\ faults = 0 /\ Cardinality(alerts) = 1 /\ lives = 1 /\ touched

\* C20, as claimed: the offset of the k-th fetch call of a run is (k-1)
\* times the effective limit, which is 100 for a batch size of 0.
C20_Original == pc = "fetch" => offset = fetchCalls * EffectiveLimit(batchSize)

\* C21: a live import that was given a target outage creates no outage and
\* links its new alert to the given one; without a target it creates exactly
\* one outage, which is in the store before the alert is inserted, and links
\* the new alert to it.
C21_OutageTargeting ==
    /\ []((lpc # "idle" /\ lreq.target # NoOutage) => lmade = {} /\ lcur = lreq.target)
    /\ [][(lpc = "createAlert" /\ lres' = "created") =>
             /\ outages' = outages
             /\ Cardinality(alerts' \ alerts) = 1
             /\ \A a \in alerts' \ alerts :
                   /\ Key(a) = <<lreq.ext, lreq.source>>
                   /\ a.outageID \in OutageIDs(outages)
                   /\ IF lreq.target # NoOutage
                      THEN a.outageID = lreq.target /\ lmade = {}
                      ELSE lmade = {a.outageID}]_vars

\* C21: a live import with a target outage has inserted its alert and
\* created no outage.
C21_Witness ==
    /\ lpc = "idle" /\ lres = "created" /\ lmade = {}
    /\ \E a \in alerts : a.outageID \in made /\ Cardinality({b \in alerts : b.outageID = a.outageID}) = 2

\* C22, as claimed: within one run no offset is requested from the
\* provider twice, and a run whose fetch failed has issued no fetch after it.
C22_Original ==
    /\ \A i, j \in 1..Len(offsets) : i # j => offsets[i] # offsets[j]
    /\ pc = "failed" => Len(offsets) = delays + 1

C24_Sequential ==
    /\ [](pc \in {"fetch", "sleep"} => page = << >> /\ Processed = stats.TotalFetched)
    /\ [](pc \in {"process", "createOutage", "createAlert", "deleteOutage"} =>
             /\ page # << >>
             /\ Processed + Len(page) = stats.TotalFetched)
    /\ [][/\ runs' = runs =>
                \/ page' = page
                \/ page # << >> /\ page' = Tail(page) /\ Processed' = Processed + 1
                \/ pc = "fetch" /\ page = << >> /\ fetchCalls' = fetchCalls + 1
          /\ fetchCalls' # fetchCalls /\ runs' = runs =>
                pc = "fetch" /\ fetchCalls' = fetchCalls + 1]_vars

\* C24: the second fetch of a real run was issued after the two alerts of
\* its first page were processed.
C24_Witness ==
    /\ ~dryRun /\ batchSize = 2 /\ fetchCalls = 2 /\ pc = "process"
    /\ Processed = 2 /\ stats.TotalFetched = 3

\* C25, as claimed: the loop of runImport makes progress towards the end of
\* the provider's finite list for every batch size: a round that is
\* followed by another fetch has moved the offset forward.
C25_Original ==
    [][(pc = "sleep" /\ pc' = "fetch") => offset' > offset]_vars

\* C26: whenever the pages fetched so far have been processed, a real run
\* has counted every fetched alert under exactly one of NewAlerts, Skipped
\* and Errors, and a dry run has counted every fetched alert under both
\* NewAlerts and NewOutages; a dry run never counts a skip or an error.
C26_Accounting ==
    /\ pc \in {"fetch", "sleep", "done", "failed"} =>
          IF dryRun
          THEN stats.TotalFetched = stats.NewAlerts /\ stats.NewAlerts = stats.NewOutages
          ELSE stats.TotalFetched = stats.NewAlerts + stats.Skipped + stats.Errors
    /\ dryRun => stats.Skipped = 0 /\ stats.Errors = 0

\* C26: a page of a real run has been processed with one alert created, one
\* skipped and one counted as an error.
C26_Witness ==
    /\ ~dryRun /\ pc = "sleep"
    /\ stats.NewAlerts = 1 /\ stats.Skipped = 1 /\ stats.Errors = 1 /\ stats.TotalFetched = 3

\* C27, as claimed: a failed existence lookup leads to no write for that
\* alert: processAlert counts the alert under Errors and goes on without
\* touching the store, and ImportAlert returns an error at once.
C27_Original ==
    [][/\ (pc = "process" /\ ~dryRun /\ faults' = faults + 1 /\ page' # page) =>
             /\ stats' = [stats EXCEPT !.Errors = @ + 1]
             /\ pc' \in {"process", "sleep"}
             /\ outages' = outages /\ alerts' = alerts
       /\ (lpc = "idle" /\ lives' = lives + 1 /\ faults' = faults + 1) =>
             lpc' = "idle" /\ lres' = "error"]_vars

\* C28, as claimed: every persisted outage has ResolvedAt set exactly when
\* its Status is "resolved" or "closed".
C28_Original ==
    \A o \in outages : o.resolved <=> o.status \in {"resolved", "closed"}

\* C29, as claimed: when a backfill run and a live import without a target
\* outage raced on the same alert with no call failing, and the store
\* rejected one of the two inserts, then after both have finished every
\* outage created by them that is in the store has exactly one alert.
C29_Original ==
    (pc = "done" /\ lpc = "idle" /\ faults = 0 /\ dupRejected /\ lmade # {}) =>
        \A id \in (made \cup lmade) \cap OutageIDs(outages) :
            Cardinality({a \in alerts : a.outageID = id}) = 1


====
